---- MODULE Spec2Model ----
(***************************************************************************)
(* Particle visualisation driven by a live multimodal session.             *)
(*   src/App.tsx                        App, updateState, types            *)
(*   src/components/ParticleSystem.tsx  ParticleSystem, GeminiController   *)
(*                                                                         *)
(* Units.  expansion and rotationSpeed are kept in tenths (1.0 = 10),      *)
(* pointSize in hundredths (0.05 = 5), target coordinates in tenths and    *)
(* positions in hundredths (a target times an expansion).  Audio times     *)
(* are whole ticks of the output context's clock.                          *)
(***************************************************************************)
EXTENDS Integers, Sequences, FiniteSets, TLC

\* ------------------------------------------------------------- bounds
MaxAttempts == 2        \* startSession activations followed
NumCoords == 1          \* entries of the position arrays followed
MaxCalls == 2           \* function calls carried by one tool message
MaxTime == 3            \* last value of the output context's clock
MaxChunks == 2          \* audio chunks delivered
MaxInterrupts == 1      \* interrupted messages delivered

\* ------------------------------------------------------------- types
ParticleShape == {"sphere", "heart", "flower", "saturn", "fireworks", "spiral"}

\* The declared parameters of the controlParticles tool.
ControlParams == {"shape", "color", "expansion", "rotationSpeed"}

InitialParticleState ==
    [shape |-> "sphere", color |-> "#4f46e5", expansion |-> 10,
     rotationSpeed |-> 5, pointSize |-> 5]

\* The five colour buttons.
Palette == {"#4f46e5", "#ec4899", "#10b981", "#f59e0b", "#ef4444"}

\* The range input: min 0.1, max 5.0, step 0.1.
SliderRange == 1 .. 50

\* The documented ranges of the tool's numeric parameters.
ExpansionRange == 1 .. 50
RotationRange == 0 .. 20

Attempts == 1 .. MaxAttempts

VARIABLES
    isActive,          \* App: the experience has been entered
    particleState,     \* App: the visual-parameter record
    targetPositions,   \* ParticleSystem: target buffer (tenths)
    positions,         \* ParticleSystem: position buffer (hundredths)
    isMicOn,           \* GeminiController state
    isCameraOn,
    status,
    isSendingFrames,
    attempts,          \* per startSession activation: progress and closure
    pendingBlob,       \* intervals with a toBlob capture in flight
    flick,             \* intervals with the 150 ms indicator timer armed
    outCtx,            \* outputAudioContextRef: the activation that made it
    now,               \* outputAudioContextRef.current.currentTime
    nextStartTime,     \* nextStartTimeRef.current
    sourcesRef,        \* sourcesRef.current
    suspended,         \* onmessage handlers waiting at the decode await
    nChunks,           \* audio chunks delivered so far
    epoch,             \* interrupted messages handled so far
    started,           \* the last source.start call, if any
    genRuns,           \* generateShape calls made by the last step
    lastParams,        \* updateState arguments applied by the last step
    lastSend           \* what the last step sent to the session

vars == <<isActive, particleState, targetPositions, positions, isMicOn,
          isCameraOn, status, isSendingFrames, attempts, pendingBlob, flick,
          outCtx, now, nextStartTime, sourcesRef, suspended, nChunks, epoch,
          started, genRuns, lastParams, lastSend>>

appVars == <<isActive, particleState, targetPositions, genRuns, lastParams>>
ctlVars == <<isMicOn, isCameraOn, status, isSendingFrames, attempts,
             pendingBlob, flick>>
audioVars == <<outCtx, now, nextStartTime, sourcesRef, suspended, nChunks,
               epoch, started>>

\* ------------------------------------------------------ ParticleSystem
\* Two of the coordinates generateShape can write for each shape, in
\* tenths; every value lies inside the range of the shape's formula.
ShapeCoords(shape) ==
    CASE shape = "heart" -> {-2, 5}
      [] shape = "flower" -> {-45, 45}
      [] shape = "saturn" -> {-20, 50}
      [] shape = "fireworks" -> {-60, 60}
      [] shape = "spiral" -> {-30, 570}
      [] OTHER -> {-3, 3}

\* generateShape: every entry of targetPositions is rewritten; Math.random
\* makes the result a choice among the buffers the formulas allow.
GenerateShape(shape) == [1 .. NumCoords -> ShapeCoords(shape)]

\* useFrame: x += (target * expansion - x) * lerpSpeed, stored back into a
\* Float32Array, which rounds the sum to the nearest value it can hold.
\* Here the buffer holds hundredths and lerpSpeed = 0.05 is 1/20.
RoundNearest(n, d) ==
    IF n >= 0 THEN (2 * n + d) \div (2 * d) ELSE -((2 * (-n) + d) \div (2 * d))

\* A lerpSpeed above 1 (1.5): every frame steps past the goal.
LerpCoordOvershoot(x, target, expansion) ==
    x + RoundNearest((target * expansion - x) * 150, 100)

LerpCoord(x, target, expansion) ==
    x + RoundNearest((target * expansion - x) * 5, 100)

\* ----------------------------------------------------------------- App
\* The decode await waits on a promise that is already resolved, so a
\* suspended onmessage handler resumes in the microtask checkpoint of the
\* task that suspended it: no click, timer, clock update or socket event
\* runs before it.  Only further onmessage calls, which the SDK makes from
\* its own promise continuations, can come in between.
TaskBoundary == suspended = <<>>

\* The merge done over the state captured when the callback was created
\* instead of over prev.
UpdateStateStale(prev, params) ==
    [f \in (DOMAIN InitialParticleState) \cup (DOMAIN params) |->
        IF f \in DOMAIN params THEN params[f] ELSE InitialParticleState[f]]

\* setParticleState(prev => ({ ...prev, ...params }))
UpdateState(prev, params) ==
    [f \in (DOMAIN prev) \cup (DOMAIN params) |->
        IF f \in DOMAIN params THEN params[f] ELSE prev[f]]

\* The queued functional updates of one handler, applied in order.
RECURSIVE ApplyUpdates(_, _)
ApplyUpdates(prev, updates) ==
    IF updates = <<>> THEN prev
    ELSE ApplyUpdates(UpdateState(prev, Head(updates)), Tail(updates))

\* What the arguments of one handler's updateState calls say together:
\* for each field named, the value of the last call naming it.
RECURSIVE MergedArgs(_)
MergedArgs(updates) ==
    IF updates = <<>> THEN <<>>
    ELSE LET rest == MergedArgs(Tail(updates))
             first == Head(updates) IN
         [f \in (DOMAIN first) \cup (DOMAIN rest) |->
            IF f \in DOMAIN rest THEN rest[f] ELSE first[f]]

\* The effect without its dependency list: it runs after every render.
ShapeEffectAlways(oldShape, newShape) == TRUE

\* Whether the effect on [shape] runs for a render from one shape to another.
ShapeEffectRuns(oldShape, newShape) == newShape # oldShape

\* One handler's updates, the render they cause and the effects of that
\* render: the [shape] effect calls generateShape when the prop differs
\* from the one of the previous render.
Render(updates) ==
    LET new == ApplyUpdates(particleState, updates) IN
    /\ particleState' = new
    /\ lastParams' = MergedArgs(updates)
    /\ IF ShapeEffectRuns(particleState.shape, new.shape)
       THEN /\ targetPositions' \in GenerateShape(new.shape)
            /\ genRuns' = 1
       ELSE /\ targetPositions' = targetPositions
            /\ genRuns' = 0

\* "Enter Experience": the scene and the controller mount.  ParticleSystem
\* calls generateShape in its mount-time useMemo and again in the first run
\* of the [shape] effect.
EnterExperience ==
    /\ TaskBoundary
    /\ ~isActive
    /\ isActive' = TRUE
    /\ targetPositions' \in GenerateShape(particleState.shape)
    /\ genRuns' = 2
    /\ lastParams' = <<>>
    /\ lastSend' = "none"
    /\ UNCHANGED <<particleState, positions>>
    /\ UNCHANGED ctlVars
    /\ UNCHANGED audioVars

\* A Quick Templates button.
TemplateClick(s) ==
    /\ TaskBoundary
    /\ isActive
    /\ Render(<<[shape |-> s]>>)
    /\ lastSend' = "none"
    /\ UNCHANGED <<isActive, positions>>
    /\ UNCHANGED ctlVars
    /\ UNCHANGED audioVars

\* The Expansion range input.
SliderChange(v) ==
    /\ TaskBoundary
    /\ isActive
    /\ v \in SliderRange
    /\ Render(<<[expansion |-> v]>>)
    /\ lastSend' = "none"
    /\ UNCHANGED <<isActive, positions>>
    /\ UNCHANGED ctlVars
    /\ UNCHANGED audioVars

\* A Core Color button.
ColorClick(c) ==
    /\ TaskBoundary
    /\ isActive
    /\ c \in Palette
    /\ Render(<<[color |-> c]>>)
    /\ lastSend' = "none"
    /\ UNCHANGED <<isActive, positions>>
    /\ UNCHANGED ctlVars
    /\ UNCHANGED audioVars

\* useFrame callback: every entry of the position buffer moves towards its
\* target times the expansion prop.
Frame ==
    /\ TaskBoundary
    /\ isActive
    /\ positions' = [k \in 1 .. NumCoords |->
            LerpCoord(positions[k], targetPositions[k], particleState.expansion)]
    /\ genRuns' = 0
    /\ lastParams' = <<>>
    /\ lastSend' = "none"
    /\ UNCHANGED <<isActive, particleState, targetPositions>>
    /\ UNCHANGED ctlVars
    /\ UNCHANGED audioVars

\* ---------------------------------------------------- GeminiController
\* An activation of startSession: where it stands, the isMicOn and
\* isCameraOn its closure holds, and whether its onopen installed the
\* audio processor and the frame interval.
\*   "unused"      not started
\*   "media"       inside the try block, before ai.live.connect
\*   "connecting"  ai.live.connect issued, not yet open
\*   "open"        onopen delivered
\*   "failing"     onerror delivered, onclose not yet
\*   "closed"      onclose delivered
\*   "thrown"      the try block threw
UnusedAttempt == [st |-> "unused", mic |-> TRUE, cam |-> TRUE, inst |-> FALSE]

Live == {"media", "connecting", "open", "failing"}

\* The videoRef and canvasRef elements and the 2d context exist while the
\* controller is mounted.
RefsMounted == TRUE

\* The status guard at the head of startSession.
StartGuard == status \notin {"connecting", "connected"}

\* The Connect button is rendered only in this status.
ConnectOffered == status = "idle"

\* startSession without its setStatus('connecting').
StartSessionNoStatus(i) ==
    /\ TaskBoundary
    /\ isActive
    /\ ConnectOffered
    /\ StartGuard
    /\ attempts[i].st = "unused"
    /\ \A j \in Attempts : j < i => attempts[j].st # "unused"
    /\ attempts' = [attempts EXCEPT ![i] =
            [st |-> "media", mic |-> isMicOn, cam |-> isCameraOn, inst |-> FALSE]]
    /\ genRuns' = 0
    /\ lastParams' = <<>>
    /\ lastSend' = "none"
    /\ UNCHANGED <<isActive, particleState, targetPositions, positions>>
    /\ UNCHANGED <<isMicOn, isCameraOn, status, isSendingFrames, pendingBlob, flick>>
    /\ UNCHANGED audioVars

\* Click on Connect: startSession up to its first await.
StartSession(i) ==
    /\ TaskBoundary
    /\ isActive
    /\ ConnectOffered
    /\ StartGuard
    /\ attempts[i].st = "unused"
    /\ \A j \in Attempts : j < i => attempts[j].st # "unused"
    /\ status' = "connecting"
    /\ attempts' = [attempts EXCEPT ![i] =
            [st |-> "media", mic |-> isMicOn, cam |-> isCameraOn, inst |-> FALSE]]
    /\ genRuns' = 0
    /\ lastParams' = <<>>
    /\ lastSend' = "none"
    /\ UNCHANGED <<isActive, particleState, targetPositions, positions>>
    /\ UNCHANGED <<isMicOn, isCameraOn, isSendingFrames, pendingBlob, flick>>
    /\ UNCHANGED audioVars

\* The catch block: getUserMedia rejected, or a constructor or the connect
\* call threw.
CatchError(i) ==
    /\ TaskBoundary
    /\ attempts[i].st = "media"
    /\ status' = "error"
    /\ attempts' = [attempts EXCEPT ![i].st = "thrown"]
    /\ genRuns' = 0
    /\ lastParams' = <<>>
    /\ lastSend' = "none"
    /\ UNCHANGED <<isActive, particleState, targetPositions, positions>>
    /\ UNCHANGED <<isMicOn, isCameraOn, isSendingFrames, pendingBlob, flick>>
    /\ UNCHANGED audioVars

\* The audio processor and the frame interval set up right after the
\* contexts, before ai.live.connect has opened anything, with their sends
\* made at once instead of through the session promise.
MediaResolvedInstalls(i) ==
    /\ TaskBoundary
    /\ attempts[i].st = "media"
    /\ attempts' = [attempts EXCEPT ![i].st = "connecting", ![i].inst = TRUE]
    /\ outCtx' = i
    /\ now' = 0
    /\ genRuns' = 0
    /\ lastParams' = <<>>
    /\ lastSend' = "none"
    /\ UNCHANGED <<isActive, particleState, targetPositions, positions>>
    /\ UNCHANGED <<isMicOn, isCameraOn, status, isSendingFrames, pendingBlob, flick>>
    /\ UNCHANGED <<nextStartTime, sourcesRef, suspended, nChunks, epoch, started>>

\* getUserMedia resolved: both audio contexts are created (the output
\* context is new, its clock at 0) and ai.live.connect is issued.
MediaResolved(i) ==
    /\ TaskBoundary
    /\ attempts[i].st = "media"
    /\ attempts' = [attempts EXCEPT ![i].st = "connecting"]
    /\ outCtx' = i
    /\ now' = 0
    /\ genRuns' = 0
    /\ lastParams' = <<>>
    /\ lastSend' = "none"
    /\ UNCHANGED <<isActive, particleState, targetPositions, positions>>
    /\ UNCHANGED <<isMicOn, isCameraOn, status, isSendingFrames, pendingBlob, flick>>
    /\ UNCHANGED <<nextStartTime, sourcesRef, suspended, nChunks, epoch, started>>

\* onopen: the audio processor and the 500 ms interval are installed.
OnOpen(i) ==
    /\ TaskBoundary
    /\ attempts[i].st = "connecting"
    /\ status' = "connected"
    /\ attempts' = [attempts EXCEPT ![i].st = "open", ![i].inst = TRUE]
    /\ genRuns' = 0
    /\ lastParams' = <<>>
    /\ lastSend' = "none"
    /\ UNCHANGED <<isActive, particleState, targetPositions, positions>>
    /\ UNCHANGED <<isMicOn, isCameraOn, isSendingFrames, pendingBlob, flick>>
    /\ UNCHANGED audioVars

\* onerror treated like onclose: the status goes back to 'idle'.
OnErrorAsIdle(i) ==
    /\ TaskBoundary
    /\ attempts[i].st \in {"connecting", "open"}
    /\ status' = "idle"
    /\ attempts' = [attempts EXCEPT ![i].st = "failing"]
    /\ genRuns' = 0
    /\ lastParams' = <<>>
    /\ lastSend' = "none"
    /\ UNCHANGED <<isActive, particleState, targetPositions, positions>>
    /\ UNCHANGED <<isMicOn, isCameraOn, isSendingFrames, pendingBlob, flick>>
    /\ UNCHANGED audioVars

OnError(i) ==
    /\ TaskBoundary
    /\ attempts[i].st \in {"connecting", "open"}
    /\ status' = "error"
    /\ attempts' = [attempts EXCEPT ![i].st = "failing"]
    /\ genRuns' = 0
    /\ lastParams' = <<>>
    /\ lastSend' = "none"
    /\ UNCHANGED <<isActive, particleState, targetPositions, positions>>
    /\ UNCHANGED <<isMicOn, isCameraOn, isSendingFrames, pendingBlob, flick>>
    /\ UNCHANGED audioVars

OnClose(i) ==
    /\ TaskBoundary
    /\ attempts[i].st \in {"connecting", "open", "failing"}
    /\ status' = "idle"
    /\ attempts' = [attempts EXCEPT ![i].st = "closed"]
    /\ genRuns' = 0
    /\ lastParams' = <<>>
    /\ lastSend' = "none"
    /\ UNCHANGED <<isActive, particleState, targetPositions, positions>>
    /\ UNCHANGED <<isMicOn, isCameraOn, isSendingFrames, pendingBlob, flick>>
    /\ UNCHANGED audioVars

\* The two toggle buttons.
ToggleMic ==
    /\ TaskBoundary
    /\ isActive
    /\ isMicOn' = ~isMicOn
    /\ genRuns' = 0
    /\ lastParams' = <<>>
    /\ lastSend' = "none"
    /\ UNCHANGED <<isActive, particleState, targetPositions, positions>>
    /\ UNCHANGED <<isCameraOn, status, isSendingFrames, attempts, pendingBlob, flick>>
    /\ UNCHANGED audioVars

ToggleCamera ==
    /\ TaskBoundary
    /\ isActive
    /\ isCameraOn' = ~isCameraOn
    /\ genRuns' = 0
    /\ lastParams' = <<>>
    /\ lastSend' = "none"
    /\ UNCHANGED <<isActive, particleState, targetPositions, positions>>
    /\ UNCHANGED <<isMicOn, status, isSendingFrames, attempts, pendingBlob, flick>>
    /\ UNCHANGED audioVars

\* scriptProcessor.onaudioprocess of activation i: the isMicOn it tests is
\* the one of the closure that installed it.
AudioProcess(i) ==
    /\ TaskBoundary
    /\ attempts[i].inst
    /\ lastSend' = IF attempts[i].mic THEN "audio" ELSE "none"
    /\ genRuns' = 0
    /\ lastParams' = <<>>
    /\ UNCHANGED <<isActive, particleState, targetPositions, positions>>
    /\ UNCHANGED ctlVars
    /\ UNCHANGED audioVars

\* The interval callback of activation i.  A tick needs the previous
\* capture of this interval to be done and its 150 ms timer to have fired.
IntervalTick(i) ==
    /\ TaskBoundary
    /\ attempts[i].inst
    /\ i \notin pendingBlob
    /\ i \notin flick
    /\ IF ~attempts[i].cam \/ ~RefsMounted
       THEN /\ isSendingFrames' = FALSE
            /\ UNCHANGED <<pendingBlob, flick>>
       ELSE /\ isSendingFrames' = TRUE
            /\ pendingBlob' = pendingBlob \cup {i}
            /\ flick' = flick \cup {i}
    /\ genRuns' = 0
    /\ lastParams' = <<>>
    /\ lastSend' = "none"
    /\ UNCHANGED <<isActive, particleState, targetPositions, positions>>
    /\ UNCHANGED <<isMicOn, isCameraOn, status, attempts>>
    /\ UNCHANGED audioVars

\* toBlob's callback and the reader's onloadend: a frame is sent when the
\* canvas produced a blob.
BlobReady(i, hasBlob) ==
    /\ TaskBoundary
    /\ i \in pendingBlob
    /\ pendingBlob' = pendingBlob \ {i}
    /\ lastSend' = IF hasBlob THEN "frame" ELSE "none"
    /\ genRuns' = 0
    /\ lastParams' = <<>>
    /\ UNCHANGED <<isActive, particleState, targetPositions, positions>>
    /\ UNCHANGED <<isMicOn, isCameraOn, status, isSendingFrames, attempts, flick>>
    /\ UNCHANGED audioVars

\* setTimeout(() => setIsSendingFrames(false), 150)
FlickTimeout(i) ==
    /\ TaskBoundary
    /\ i \in flick
    /\ flick' = flick \ {i}
    /\ isSendingFrames' = FALSE
    /\ genRuns' = 0
    /\ lastParams' = <<>>
    /\ lastSend' = "none"
    /\ UNCHANGED <<isActive, particleState, targetPositions, positions>>
    /\ UNCHANGED <<isMicOn, isCameraOn, status, attempts, pendingBlob>>
    /\ UNCHANGED audioVars

\* ------------------------------------------------- onmessage: playback
Max(a, b) == IF a >= b THEN a ELSE b

\* The updateState arguments of the controlParticles calls of a message.
ControlArgs(calls) ==
    LET kept == SelectSeq(calls, LAMBDA fc : fc.name = "controlParticles") IN
    [k \in 1 .. Len(kept) |-> kept[k].args]

\* The toolCall loop: onUpdate for each controlParticles call, and a tool
\* response sent for each.
HandleToolCalls(calls) ==
    /\ Render(ControlArgs(calls))
    /\ lastSend' = IF ControlArgs(calls) # <<>> THEN "tool" ELSE "none"

\* nextStartTimeRef after the interrupted block of a message.
AfterInterrupt(msg) == IF msg.interrupted THEN 0 ELSE nextStartTime

\* onmessage of activation i, up to its return or to the decode await.
\* msg.audio is the duration of the chunk carried, 0 for none.
OnMessage(i, msg) ==
    /\ attempts[i].st = "open"
    /\ msg.interrupted => epoch < MaxInterrupts
    /\ msg.audio > 0 => nChunks < MaxChunks
    /\ epoch' = IF msg.interrupted THEN epoch + 1 ELSE epoch
    /\ IF msg.audio > 0 /\ outCtx # 0
       THEN /\ nextStartTime' = Max(AfterInterrupt(msg), now)
            /\ nChunks' = nChunks + 1
            /\ suspended' = Append(suspended,
                    [id |-> nChunks + 1, dur |-> msg.audio, epoch |-> epoch',
                     calls |-> msg.calls])
            /\ Render(<<>>)
            /\ lastSend' = "none"
       ELSE /\ nextStartTime' = AfterInterrupt(msg)
            /\ UNCHANGED <<nChunks, suspended>>
            /\ HandleToolCalls(msg.calls)
    /\ sourcesRef' = IF msg.interrupted THEN {} ELSE sourcesRef
    /\ UNCHANGED <<isActive, positions, outCtx, now, started>>
    /\ UNCHANGED ctlVars

\* The source a resumed handler creates and starts.
NewSource(h) ==
    [id |-> h.id, start |-> nextStartTime, dur |-> h.dur, at |-> now,
     epoch |-> h.epoch, ctx |-> outCtx]

\* nextStartTimeRef left where it was after source.start.
AfterStartNoAdvance(h) == nextStartTime

\* nextStartTimeRef after source.start: advanced by the buffer's duration.
AfterStart(h) == nextStartTime + h.dur

\* The rest of the handler that suspended first: the source is started at
\* nextStartTimeRef and added to the set, then the tool calls are handled.
ResumeDecode ==
    /\ suspended # <<>>
    /\ LET h == Head(suspended) IN
       /\ sourcesRef' = sourcesRef \cup {NewSource(h)}
       /\ started' = <<[src |-> NewSource(h), startEpoch |-> epoch]>>
       /\ nextStartTime' = AfterStart(h)
       /\ HandleToolCalls(h.calls)
    /\ suspended' = Tail(suspended)
    /\ UNCHANGED <<isActive, positions, outCtx, now, nChunks, epoch>>
    /\ UNCHANGED ctlVars

\* When a started source is heard: at once if its start time has passed.
PlayFrom(src) == Max(src.start, src.at)

\* The 'ended' listener of a source whose buffer has played out.
Ended(src) ==
    /\ TaskBoundary
    /\ src \in sourcesRef
    /\ src.ctx # outCtx \/ now >= PlayFrom(src) + src.dur
    /\ sourcesRef' = sourcesRef \ {src}
    /\ genRuns' = 0
    /\ lastParams' = <<>>
    /\ lastSend' = "none"
    /\ UNCHANGED <<isActive, particleState, targetPositions, positions>>
    /\ UNCHANGED ctlVars
    /\ UNCHANGED <<outCtx, now, nextStartTime, suspended, nChunks, epoch, started>>

\* The output context's clock advances.
Tick ==
    /\ TaskBoundary
    /\ outCtx # 0
    /\ now < MaxTime
    /\ now' = now + 1
    /\ genRuns' = 0
    /\ lastParams' = <<>>
    /\ lastSend' = "none"
    /\ UNCHANGED <<isActive, particleState, targetPositions, positions>>
    /\ UNCHANGED ctlVars
    /\ UNCHANGED <<outCtx, nextStartTime, sourcesRef, suspended, nChunks, epoch, started>>

\* ------------------------------------------------------ initial state
Init ==
    /\ isActive = FALSE
    /\ particleState = InitialParticleState
    /\ targetPositions = [k \in 1 .. NumCoords |-> 0]
    /\ positions = [k \in 1 .. NumCoords |-> 0]
    /\ isMicOn = TRUE
    /\ isCameraOn = TRUE
    /\ status = "idle"
    /\ isSendingFrames = FALSE
    /\ attempts = [i \in Attempts |-> UnusedAttempt]
    /\ pendingBlob = {}
    /\ flick = {}
    /\ outCtx = 0
    /\ now = 0
    /\ nextStartTime = 0
    /\ sourcesRef = {}
    /\ suspended = <<>>
    /\ nChunks = 0
    /\ epoch = 0
    /\ started = <<>>
    /\ genRuns = 0
    /\ lastParams = <<>>
    /\ lastSend = "none"

\* ------------------------------------------------------------- inputs
\* Slider positions followed: both ends of the range and the initial value.
SliderValues == {1, 10, 50}

\* Values a controlParticles call can carry.  The declaration names the
\* four parameters and lists the shapes; for the numbers it gives a range
\* only in the description text, so values outside it can arrive.
ToolShapes == {"heart"}
ToolColors == {"#ff0000"}
ToolExpansions == {60}
ToolRotations == {25}

One(f, S) == {[x \in {f} |-> v] : v \in S}

\* One parameter, or all four.
ToolArgs ==
    One("shape", ToolShapes) \cup One("color", ToolColors)
        \cup One("expansion", ToolExpansions) \cup One("rotationSpeed", ToolRotations)
        \cup {[shape |-> a, color |-> b, expansion |-> c, rotationSpeed |-> d] :
                a \in ToolShapes, b \in ToolColors, c \in ToolExpansions,
                d \in ToolRotations}

FunctionCalls ==
    {[name |-> "controlParticles", args |-> a] : a \in ToolArgs}
        \cup {[name |-> "unknownTool", args |-> <<>>]}

CallSeqs == UNION {[1 .. n -> FunctionCalls] : n \in 1 .. MaxCalls}

ToolMessages == {[interrupted |-> FALSE, audio |-> 0, calls |-> cs] : cs \in CallSeqs}

AudioMessages ==
    {[interrupted |-> b, audio |-> d, calls |-> cs] :
        b \in BOOLEAN, d \in 0 .. 2,
        cs \in {<<>>, <<[name |-> "controlParticles", args |-> [color |-> "#ff0000"]]>>}}

\* Shapes and slider positions followed by the animation loop.
AnimShapes == {"sphere", "heart"}
AnimSliderValues == {5, 10}

\* ----------------------------------------------------- specifications
\* The session lifecycle, the toggles and what is sent to the session.
Next ==
    \/ EnterExperience
    \/ ToggleMic
    \/ ToggleCamera
    \/ \E i \in Attempts :
        \/ StartSession(i)
        \/ CatchError(i)
        \/ MediaResolved(i)
        \/ OnOpen(i)
        \/ OnError(i)
        \/ OnClose(i)
        \/ AudioProcess(i)
        \/ IntervalTick(i)
        \/ FlickTimeout(i)
        \/ \E hasBlob \in BOOLEAN : BlobReady(i, hasBlob)

Spec == Init /\ [][Next]_vars

\* The visual parameters: the controls of App and the tool calls of an
\* open session.
ParamNext ==
    \/ EnterExperience
    \/ \E s \in ParticleShape : TemplateClick(s)
    \/ \E v \in SliderValues : SliderChange(v)
    \/ \E c \in Palette : ColorClick(c)
    \/ \E i \in Attempts :
        \/ StartSession(i)
        \/ MediaResolved(i)
        \/ OnOpen(i)
        \/ \E msg \in ToolMessages : OnMessage(i, msg)

ParamSpec == Init /\ [][ParamNext]_vars

\* Playback of the streamed audio of one session.
AudioNext ==
    \/ EnterExperience
    \/ ResumeDecode
    \/ Tick
    \/ \E src \in sourcesRef : Ended(src)
    \/ \E i \in Attempts :
        \/ StartSession(i)
        \/ MediaResolved(i)
        \/ OnOpen(i)
        \/ \E msg \in AudioMessages : OnMessage(i, msg)

AudioSpec == Init /\ [][AudioNext]_vars

\* The frame loop of ParticleSystem under changes of shape and expansion.
AnimNext ==
    \/ EnterExperience
    \/ Frame
    \/ \E s \in AnimShapes : TemplateClick(s)
    \/ \E v \in AnimSliderValues : SliderChange(v)

AnimSpec == Init /\ [][AnimNext]_vars /\ WF_vars(Frame)

\* ------------------------------------------------------------- claims
Abs(n) == IF n >= 0 THEN n ELSE -n

\* C1: in every reachable state expansion is in [0.1, 5.0], rotationSpeed
\* is in [0.0, 2.0] and shape is one of the six ParticleShape values.
C1_ParamsInRange ==
    /\ particleState.expansion \in ExpansionRange
    /\ particleState.rotationSpeed \in RotationRange
    /\ particleState.shape \in ParticleShape

\* C2: an activation of startSession that throws, and a session whose
\* onerror fires, leave status 'error'; while status is 'error' nothing is
\* connecting or connected; and an activation begins only in a step taken
\* from status 'idle', where Connect is offered, and leaves 'connecting'.
C2_FailureIsStatusFlag ==
    /\ [](status = "error" =>
            \A i \in Attempts : attempts[i].st \notin {"media", "connecting", "open"})
    /\ [][\A i \in Attempts :
            /\ (attempts'[i].st \in {"thrown", "failing"} /\ attempts'[i].st # attempts[i].st)
                    => status' = "error"
            /\ (attempts[i].st = "unused" /\ attempts'[i].st # "unused")
                    => (status = "idle" /\ status' = "connecting")]_vars

\* C2 witness: a second activation threw after the first session closed.
C2_Witness ==
    /\ status = "error"
    /\ \E i, j \in Attempts : attempts[i].st = "closed" /\ attempts[j].st = "thrown"

\* C3: a chunk that met no interruption between its arrival and its start
\* is started no earlier than the context's current time; and when the
\* chunk started before it arrived after the same interruption, it is
\* started no earlier than that chunk's start plus its duration, and
\* arrived after it.
C3_PlaybackSequenced ==
    [][started' # started =>
        LET c == started'[1] IN
        c.src.epoch = c.startEpoch =>
            /\ c.src.start >= c.src.at
            /\ (started # <<>> /\ started[1].src.epoch = c.src.epoch) =>
                    /\ c.src.start >= started[1].src.start + started[1].src.dur
                    /\ c.src.id > started[1].src.id]_vars

\* C3 witness: with no interruption, a second chunk queued behind the
\* first and therefore started later than the clock.
C3_Witness ==
    /\ started # <<>>
    /\ epoch = 0
    /\ started[1].src.id = 2
    /\ started[1].src.start > started[1].src.at

\* Remaining distance of entry k to its goal, target * expansion.
Dist(k) == targetPositions[k] * particleState.expansion - positions[k]

DistNext(k) == targetPositions'[k] * particleState'.expansion - positions'[k]

\* Below this distance the rounded step of a frame is zero.
Settled == \A k \in DOMAIN positions : 2 * Abs(Dist(k)) < 20

GoalChanges ==
    \/ targetPositions' # targetPositions
    \/ particleState'.expansion # particleState.expansion

\* C4: a frame moves every entry by 0.05 of its remaining distance (to the
\* rounding of the store), so the distance does not grow, does not change
\* sign and shrinks until the step rounds to nothing; a step that changes
\* shape or expansion leaves the positions where they are; and unless the
\* goal keeps changing the positions end, and stay, within rounding of it.
C4_ExponentialDecay ==
    /\ [][\A k \in 1 .. NumCoords :
            /\ GoalChanges => positions' = positions
            /\ ~GoalChanges =>
                /\ Abs(DistNext(k)) <= Abs(Dist(k))
                /\ DistNext(k) * Dist(k) >= 0
            /\ Frame =>
                /\ 2 * Abs(20 * (positions'[k] - positions[k]) - Dist(k)) <= 20
                /\ 2 * Abs(Dist(k)) >= 20 => Abs(DistNext(k)) < Abs(Dist(k))]_vars
    /\ ([]<><<GoalChanges>>_vars) \/ <>[]Settled

\* C4 witness: an entry under way to the goal of a second shape and a
\* second expansion.
C4_Witness ==
    /\ particleState.shape = "heart"
    /\ particleState.expansion = 5
    /\ positions[1] > 10
    /\ Dist(1) < -20

\* C5: after the mount, a step that changes the shape parameter runs
\* generateShape exactly once, and any other step runs it not at all and
\* leaves targetPositions as they were.
C5_GeneratedOncePerShapeChange ==
    [][isActive =>
        IF particleState'.shape # particleState.shape
        THEN genRuns' = 1 /\ targetPositions' \in GenerateShape(particleState'.shape)
        ELSE genRuns' = 0 /\ targetPositions' = targetPositions]_vars

\* C5 witness: a tool call that changed the shape together with the other
\* parameters.
C5_Witness ==
    /\ genRuns = 1
    /\ DOMAIN lastParams = ControlParams
    /\ particleState.shape = "heart"

\* C6: an onaudioprocess call of a connected session made while the
\* microphone toggle is off sends no audio.
C6_MicOffSendsNothing ==
    [][\A i \in Attempts :
        (AudioProcess(i) /\ attempts[i].st = "open" /\ ~isMicOn) =>
            lastSend' # "audio"]_vars

\* C7: an interval tick of a connected session made while the camera
\* toggle is off captures no frame and leaves the vision indicator off.
C7_CameraOffSkipsCapture ==
    [][\A i \in Attempts :
        (IntervalTick(i) /\ attempts[i].st = "open" /\ ~isCameraOn) =>
            (isSendingFrames' = FALSE /\ pendingBlob' = pendingBlob)]_vars

\* C8: at most one activation of startSession is under way, connecting or
\* connected at any time.
C8_AtMostOneSession ==
    Cardinality({i \in Attempts : attempts[i].st \in Live}) <= 1

\* C8 witness: a second session open after the first was closed.
C8_Witness ==
    \E i, j \in Attempts : attempts[i].st = "closed" /\ attempts[j].st = "open"

\* C9: no source of a chunk received before the last handled interruption
\* is in the active set.
C9_InterruptCancelsAll ==
    \A src \in sourcesRef : src.epoch = epoch

\* C10: a step changes exactly the fields its updateState arguments name,
\* to the values they give, and pointSize keeps its initial value.
C10_PartialMerge ==
    /\ [](particleState.pointSize = InitialParticleState.pointSize)
    /\ [][/\ DOMAIN particleState' = DOMAIN particleState
          /\ \A f \in DOMAIN particleState :
                particleState'[f] =
                    IF f \in DOMAIN lastParams' THEN lastParams'[f]
                    ELSE particleState[f]]_vars

\* C10 witness: a tool call naming only expansion, made when shape and
\* colour had left their initial values.
C10_Witness ==
    /\ DOMAIN lastParams = {"expansion"}
    /\ lastSend = "tool"
    /\ particleState.shape = "saturn"
    /\ particleState.color = "#ec4899"
    /\ particleState.rotationSpeed = 25

\* C11: audio or a frame is sent by the handlers of an activation only
\* after that activation's onopen has been delivered, never while it is
\* still getting media or connecting; and whenever something has been sent,
\* some session has been opened before.
C11_NoSendBeforeOpen ==
    /\ [](lastSend # "none" => \E i \in Attempts : attempts[i].inst)
    /\ [][\A i \in Attempts :
            ((AudioProcess(i) \/ BlobReady(i, TRUE)) /\ lastSend' # "none") =>
                /\ attempts[i].inst
                /\ attempts[i].st \in {"open", "failing", "closed"}]_vars

\* C11 witness: a frame sent on an open session, after an earlier
\* activation was closed before it ever opened and so installed nothing.
C11_Witness ==
    /\ lastSend = "frame"
    /\ \E i, j \in Attempts :
            /\ attempts[i].st = "open"
            /\ attempts[j].st = "closed"
            /\ ~attempts[j].inst

====
